---------------------------- MODULE Spec2Model ----------------------------
(***************************************************************************)
(* The linker of scas (linker/linker.c): link_objects places the merged    *)
(* areas, builds the automatic relocation table, gathers the symbols,      *)
(* resolves every area's late immediates and writes the final image.       *)
(*                                                                         *)
(* A uint64_t the code does bit arithmetic on is the set of the positions   *)
(* of its 1 bits, so that the wrap of `result - base_address` and the bit  *)
(* tests of the truncation checks are computed as the code computes them.  *)
(* Addresses, lengths and symbol values, which the model's inputs keep far *)
(* below 2^31, are naturals.                                               *)
(***************************************************************************)
EXTENDS Integers, Sequences, FiniteSets

(* ------------------------------ bounds --------------------------------- *)

\* Most merged areas of one link (the relocation table not counted).
MaxAreas == 2

\* Most late immediates of the area of a single-area link.
MaxImms == 2

\* Bytes of the area of a single-area link: long enough for a backward
\* 8-bit relative reference of more than 256 bytes.
LongLen == 300

(* --------------------------- uint64_t ---------------------------------- *)

\* The positions of the bits of a uint64_t; a value is the set of the
\* positions of its 1 bits.
Bit == 0..63

\* A natural below 2^31 as a uint64_t.
NatBits(n) == {k \in 0..30 : (n \div (2 ^ k)) % 2 = 1}

\* ~a
Not64(a) == Bit \ a

\* The conversion of a C integer n, -2^31 < n < 2^31, to uint64_t (two's
\* complement: -n is ~(n - 1)).
U64(n) == IF n >= 0 THEN NatBits(n) ELSE Not64(NatBits(-n - 1))

\* a & b
And64(a, b) == a \cap b

\* a | b
Or64(a, b) == a \cup b

\* a << s, 0 <= s < 64
Shl64(a, s) == {k + s : k \in a} \cap Bit

\* a >> s, 0 <= s < 64
Shr64(a, s) == {k - s : k \in a} \cap Bit

\* Bits k.. of a + b + c, c the carry into bit k; the carry out of bit 63 is
\* dropped (arithmetic modulo 2^64).
RECURSIVE AddFrom(_, _, _, _)
AddFrom(a, b, k, c) ==
    IF k > 63 THEN {}
    ELSE LET s == (IF k \in a THEN 1 ELSE 0) + (IF k \in b THEN 1 ELSE 0) + c
         IN  (IF s % 2 = 1 THEN {k} ELSE {})
             \cup AddFrom(a, b, k + 1, s \div 2)

\* a - b modulo 2^64: a + ~b + 1
Sub64(a, b) == AddFrom(a, Not64(b), 0, 1)

\* a != 0
NonZero64(a) == a # {}

\* (uint8_t)a
Low8(a) ==
    (IF 0 \in a THEN 1 ELSE 0) + (IF 1 \in a THEN 2 ELSE 0)
    + (IF 2 \in a THEN 4 ELSE 0) + (IF 3 \in a THEN 8 ELSE 0)
    + (IF 4 \in a THEN 16 ELSE 0) + (IF 5 \in a THEN 32 ELSE 0)
    + (IF 6 \in a THEN 64 ELSE 0) + (IF 7 \in a THEN 128 ELSE 0)

\* x | y on two uint8_t.
RECURSIVE ByteOr(_, _)
ByteOr(x, y) ==
    IF x = 0 THEN y
    ELSE IF y = 0 THEN x
    ELSE (IF (x % 2) + (y % 2) > 0 THEN 1 ELSE 0)
         + 2 * ByteOr(x \div 2, y \div 2)

(* ------------------------------ names ---------------------------------- *)

\* A C string is the sequence of its characters.
Foo == <<"F", "o", "o">>
FOO == <<"F", "O", "O">>
bar == <<"b", "a", "r">>
nope == <<"n", "o", "p", "e">>
PC == <<"$">>
RelocationTableName ==
    <<"_", "_", "s", "c", "a", "s", "_", "r", "e", "l", "o", "c", "a", "t",
      "i", "o", "n", "_", "t", "a", "b", "l", "e">>

\* tolower on the characters the names are written with.
tolower(c) ==
    CASE c = "F" -> "f"
      [] c = "O" -> "o"
      [] OTHER -> c

\* strcasecmp(a, b): 0 when the strings are equal ignoring case.
strcasecmp(a, b) ==
    IF Len(a) = Len(b) /\ \A k \in 1..Len(a) : tolower(a[k]) = tolower(b[k])
    THEN 0 ELSE 1

(* ------------------------------ symbols -------------------------------- *)

NULL == 0

\* The loop of find_symbol from entry k on: the index of the first entry
\* whose name matches, NULL when there is none.
\* For contrast: a lookup that compares names exactly, as strcmp would.
find_symbol_exact(symbols, name) ==
    IF \E k \in DOMAIN symbols : symbols[k].name = name
    THEN CHOOSE k \in DOMAIN symbols :
           /\ symbols[k].name = name
           /\ \A j \in 1..(k - 1) : symbols[j].name # name
    ELSE NULL

RECURSIVE find_symbol_from(_, _, _)
find_symbol_from(symbols, name, k) ==
    IF k > Len(symbols) THEN NULL
    ELSE IF strcasecmp(symbols[k].name, name) = 0 THEN k
    ELSE find_symbol_from(symbols, name, k + 1)

find_symbol(symbols, name) == find_symbol_from(symbols, name, 1)

(* ---------------------------- expressions ------------------------------ *)

\* The expression evaluator is a collaborator of the linker: an expression
\* is a symbol reference, a number, or malformed.
Sym(name) == [kind |-> "symbol", name |-> name, value |-> 0]
Num(value) == [kind |-> "number", name |-> <<>>, value |-> value]
Malformed == [kind |-> "malformed", name |-> <<>>, value |-> 0]

\* evaluate_expression(expression, symbols, &error, &symbol)
evaluate_expression(expression, symbols) ==
    CASE expression.kind = "number" ->
           [result |-> U64(expression.value), error |-> "EXPRESSION_OK",
            symbol |-> <<>>]
      [] expression.kind = "symbol" ->
           LET found == find_symbol(symbols, expression.name)
           IN  IF found = NULL
               THEN [result |-> U64(0), error |-> "EXPRESSION_BAD_SYMBOL",
                     symbol |-> expression.name]
               ELSE [result |-> U64(symbols[found].value),
                     error |-> "EXPRESSION_OK", symbol |-> <<>>]
      [] OTHER ->
           [result |-> U64(0), error |-> "EXPRESSION_BAD_SYNTAX",
            symbol |-> <<>>]

\* add_error_from_map(errors, code, map, address, ...): one more diagnostic.
add_error(errors, code, address, symbol) ==
    Append(errors, [code |-> code, address |-> address, symbol |-> symbol])

(* ----------------------- resolve_immediate_values ---------------------- *)

\* The mask loop: `while (--shift) { mask <<= 1; mask |= 1; }`.
RECURSIVE mask_loop(_, _)
mask_loop(mask, shift) ==
    IF shift - 1 # 0
    THEN mask_loop(Or64(Shl64(mask, 1), U64(1)), shift - 1)
    ELSE mask

width_mask(width) == mask_loop(U64(1), width)

\* The signed check of a relative immediate.
relative_truncated(result, width, mask) ==
    /\ And64(result, Shr64(mask, 1)) # result
    /\ \/ ~NonZero64(And64(result, U64(2 ^ width)))
       \/ And64(result, Not64(mask)) # Not64(mask)

\* The unsigned check of an absolute immediate.
absolute_truncated(result, width, mask) ==
    /\ And64(result, mask) # result
    /\ NonZero64(Shr64(Not64(result), width))

\* The number of bytes the patch loop writes.
patch_length(width) == width \div 8

\* The patch loop from byte j on: data[address + j] |= result & 0xFF.
RECURSIVE patch_bytes(_, _, _, _, _)
patch_bytes(data, address, count, result, j) ==
    IF j >= count THEN data
    ELSE patch_bytes(
           [data EXCEPT ![address + j + 1] = ByteOr(@, Low8(result))],
           address, count, Shr64(result, 8), j + 1)

\* For contrast: a loop body whose second `continue` is missing.
skips_patch_on_bad_symbol_only(error) == error = "EXPRESSION_BAD_SYMBOL"

\* Whether the loop body leaves the immediate unpatched (`continue`).
skips_patch(error) ==
    error = "EXPRESSION_BAD_SYMBOL" \/ error = "EXPRESSION_BAD_SYNTAX"

\* What one iteration leaves behind: the area's data, the diagnostics, the
\* immediate with its addresses made absolute, and the record of it in log.
iteration_done(st, moved, ev, result, errors, data) ==
    [data |-> data,
     errors |-> errors,
     immediates |-> Append(st.immediates, moved),
     log |-> Append(st.log,
               [imm |-> moved, error |-> ev.error, symbol |-> ev.symbol,
                value |-> ev.result, result |-> result,
                before |-> st.data, after |-> data,
                reported |-> SubSeq(errors, Len(st.errors) + 1,
                                    Len(errors))])]

\* Lines 76-94: the truncation check, then the patch of the masked result.
check_and_patch(st, moved, ev, result, mask) ==
    iteration_done(
      st, moved, ev, result,
      IF (IF moved.type = "IMM_TYPE_RELATIVE"
          THEN relative_truncated(result, moved.width, mask)
          ELSE absolute_truncated(result, moved.width, mask))
      THEN add_error(st.errors, "ERROR_VALUE_TRUNCATED",
                     moved.instruction_address, <<>>)
      ELSE st.errors,
      patch_bytes(st.data, moved.address, patch_length(moved.width),
                  And64(result, mask), 0))

\* Lines 56-75: the evaluator's errors, each one diagnostic and `continue`;
\* otherwise the result, less the base address when relative, and the mask.
after_evaluation(st, moved, ev) ==
    IF skips_patch(ev.error)
    THEN iteration_done(
           st, moved, ev, ev.result,
           IF ev.error = "EXPRESSION_BAD_SYMBOL"
           THEN add_error(st.errors, "ERROR_UNKNOWN_SYMBOL",
                          moved.instruction_address, ev.symbol)
           ELSE add_error(st.errors, "ERROR_INVALID_SYNTAX",
                          moved.instruction_address, <<>>),
           st.data)
    ELSE check_and_patch(
           st, moved, ev,
           IF moved.type = "IMM_TYPE_RELATIVE"
           THEN Sub64(ev.result, U64(moved.base_address))
           ELSE ev.result,
           width_mask(moved.width))

\* Lines 45-55: the evaluation with `$` added at the end of the table.
evaluate_at(symbols, st, moved) ==
    after_evaluation(
      st, moved,
      evaluate_expression(
        moved.expression,
        Append(symbols, [name |-> PC, value |-> moved.instruction_address,
                         defined_address |-> 0])))

\* One iteration of the loop of resolve_immediate_values on the immediate
\* imm of an area placed at final_address.  st holds the area's data, the
\* diagnostics and what the iterations before left behind.
resolve_immediate(symbols, final_address, st, imm) ==
    evaluate_at(symbols, st,
                [imm EXCEPT !.instruction_address = @ + final_address,
                            !.base_address = @ + final_address])

\* The loop of resolve_immediate_values from immediate k on.
RECURSIVE resolve_from(_, _, _, _)
resolve_from(symbols, area, st, k) ==
    IF k > Len(area.late_immediates) THEN st
    ELSE resolve_from(symbols, area,
                      resolve_immediate(symbols, area.final_address, st,
                                        area.late_immediates[k]),
                      k + 1)

resolve_immediate_values(symbols, area, errors) ==
    resolve_from(symbols, area,
                 [data |-> area.data, errors |-> errors, immediates |-> <<>>,
                  log |-> <<>>], 1)

(* ------------------------------ areas ---------------------------------- *)

\* relocate_area(area, address, false): the area gains its final address
\* and its labels move with it.
relocate_area(area, address) ==
    [area EXCEPT
       !.final_address = address,
       !.symbols = [k \in DOMAIN @ |->
                      [@[k] EXCEPT !.value = @ + address,
                                   !.defined_address = @ + address]]]

\* append_to_area(area, data, length)
append_to_area(area, bytes) == [area EXCEPT !.data = @ \o bytes]

\* The two bytes of a uint16_t in memory, as `(uint8_t *)&value` reads them
\* on the little-endian hosts scas is built for.
uint16_bytes(value) == <<value % 256, (value \div 256) % 256>>

\* get_area_by_name(merged, name): NULL when no area has the name.
get_area_by_name(areas, name) ==
    IF \E k \in DOMAIN areas : areas[k].name = name
    THEN CHOOSE k \in DOMAIN areas : areas[k].name = name
    ELSE NULL

\* Whether auto_relocate_area records the immediate.
needs_relocation(imm) ==
    imm.type # "IMM_TYPE_RELATIVE" /\ imm.base_address # imm.address

\* The loop of auto_relocate_area from immediate k on: the relocation table
\* with one entry more for each immediate of area that needs one.
RECURSIVE auto_relocate_from(_, _, _)
auto_relocate_from(area, relocation_table, k) ==
    IF k > Len(area.late_immediates) THEN relocation_table
    ELSE LET imm == area.late_immediates[k]
             value == (imm.address + area.final_address) % 65536
         IN  auto_relocate_from(
               area,
               IF needs_relocation(imm)
               THEN append_to_area(relocation_table, uint16_bytes(value))
               ELSE relocation_table,
               k + 1)

auto_relocate_area(area, relocation_table) ==
    auto_relocate_from(area, relocation_table, 1)

\* The loop of gather_symbols from symbol k on.
RECURSIVE gather_from(_, _, _)
gather_from(st, area, k) ==
    IF k > Len(area.symbols) THEN st
    ELSE LET sym == area.symbols[k]
         IN  gather_from(
               IF find_symbol(st.symbols, sym.name) # NULL
               THEN [st EXCEPT !.errors =
                       add_error(@, "ERROR_DUPLICATE_SYMBOL",
                                 sym.defined_address, sym.name)]
               ELSE [st EXCEPT !.symbols = Append(@, sym)],
               area, k + 1)

gather_symbols(symbols, area, errors) ==
    gather_from([symbols |-> symbols, errors |-> errors], area, 1)

\* move_origin(symbols), with scas_runtime.options.origin as a parameter.
move_origin(symbols, org) ==
    [k \in DOMAIN symbols |-> [symbols[k] EXCEPT !.value = @ + org]]

\* The table as resolve_immediate_values reads it for one area.
origin_applied(symbols, org) ==
    IF org # 0 THEN move_origin(symbols, org) ELSE symbols

\* For contrast: a final area that keeps only the last buffer given to it.
final_overwritten(final, data) == data

\* The final area after one more area's finished buffer.
final_after(final, data) == final \o data

(* ------------------------------ inputs --------------------------------- *)

Symbol(name, value) ==
    [name |-> name, value |-> value, defined_address |-> value]

\* A late immediate whose instruction is the opcode byte before it.
Immediate(type, width, address, base_address, expression) ==
    [type |-> type, width |-> width, address |-> address,
     instruction_address |-> address - 1, base_address |-> base_address,
     expression |-> expression]

Area(name, data, symbols, late_immediates) ==
    [name |-> name, data |-> data, symbols |-> symbols,
     late_immediates |-> late_immediates, final_address |-> 0]

AreaName(k) == <<"AREA", k>>

\* The area link_objects creates for the relocatable references (lines
\* 141-151), as it stands in the merged object.
RelocationTableArea ==
    Area(RelocationTableName, <<>>, <<Symbol(RelocationTableName, 0)>>, <<>>)

\* scas_runtime.options.origin
Origins == {0, 32768}

\* The areas of a link of several areas: some labels, and no late
\* immediate (three bytes of data) or some (four bytes, the operands after
\* the opcode at offset 0).
SymLists ==
    { <<Symbol(Foo, 0)>>,
      <<Symbol(FOO, 1), Symbol(bar, 2)>>,
      <<Symbol(bar, 0), Symbol(Foo, 2), Symbol(FOO, 3)>> }

ImmLists ==
    { <<>>,
      <<Immediate("IMM_TYPE_ABSOLUTE", 16, 1, 0, Sym(Foo))>>,
      <<Immediate("IMM_TYPE_RELATIVE", 8, 1, 2, Sym(FOO)),
        Immediate("IMM_TYPE_ABSOLUTE", 8, 3, 3, Sym(bar))>> }

Content == [symbols : SymLists, late_immediates : ImmLists]

ContentArea(k, c) ==
    Area(AreaName(k),
         IF c.late_immediates = <<>> THEN <<17, 34, 51>>
         ELSE <<195, 0, 0, 0>>,
         c.symbols, c.late_immediates)

\* seq with x inserted so that it becomes element pos.
InsertAt(seq, pos, x) ==
    SubSeq(seq, 1, pos - 1) \o <<x>> \o SubSeq(seq, pos, Len(seq))

\* The merged areas of a link without automatic relocation.
UserAreas ==
    UNION { { [k \in 1..n |-> ContentArea(k, cs[k])] :
                cs \in [1..n -> Content] } : n \in 1..MaxAreas }

\* The merged objects of several areas.  Under automatic relocation the
\* relocation table is one of the merged areas, at the place of the first
\* input area of its name: the last place when only link_objects made one.
LinkInputs ==
    { [automatic_relocation |-> FALSE, origin |-> o, areas |-> as] :
        o \in Origins, as \in UserAreas }
    \cup
    { [automatic_relocation |-> TRUE, origin |-> o,
       areas |-> InsertAt(ap[1], ap[2], RelocationTableArea)] :
        o \in Origins,
        ap \in UNION { { <<as, pos>> : pos \in 1..(Len(as) + 1) } :
                         as \in UserAreas } }

\* The late immediates of the area of a single-area link: absolute ones
\* that share byte 1 with the opcode bits already there, and relative ones
\* far from the labels at the area's start.
ImmPool ==
    { Immediate("IMM_TYPE_ABSOLUTE", 3, 1, 0, Num(5)) }
    \cup
    { Immediate("IMM_TYPE_ABSOLUTE", 8, 1, 0, e) :
        e \in {Num(5), Num(300), Num(-1), Num(-300), Sym(FOO), Sym(nope),
               Malformed} }
    \cup
    { Immediate("IMM_TYPE_ABSOLUTE", 16, 1, 0, e) :
        e \in {Num(70000), Sym(PC)} }
    \cup
    { Immediate("IMM_TYPE_RELATIVE", 8, 150, 151, e) :
        e \in {Sym(Foo), Sym(PC), Num(279)} }
    \cup
    { Immediate("IMM_TYPE_RELATIVE", 8, 289, 290, Sym(Foo)) }
    \cup
    { Immediate("IMM_TYPE_RELATIVE", 16, 150, 151, Sym(Foo)) }

LongData == [k \in 1..LongLen |-> IF k = 2 THEN 64 ELSE 0]

SeqsUpTo(S, n) == UNION { [1..m -> S] : m \in 0..n }

\* The merged objects of one long area.
PatchInputs ==
    { [automatic_relocation |-> FALSE, origin |-> o,
       areas |-> << Area(AreaName(1), LongData,
                         <<Symbol(Foo, 5), Symbol(bar, 2)>>, imms) >>] :
        o \in Origins, imms \in SeqsUpTo(ImmPool, MaxImms) }

Inputs == LinkInputs \cup PatchInputs

(* ------------------------------ state ---------------------------------- *)

VARIABLES
    automatic_relocation,  \* settings->automatic_relocation
    origin,                \* scas_runtime.options.origin
    areas,                 \* merged->areas
    relocation_table,      \* the index in areas of relocation_table, or NULL
    symbols,               \* the global symbol table
    errors,                \* settings->errors
    final,                 \* final->data
    address,               \* the placement loop's running address
    pc,                    \* the loop of link_objects that runs next
    i,                     \* that loop's index (1-based)
    output,                \* the calls of settings->write_output
    log                    \* what resolve_immediate_values did to each late
                           \* immediate of the area linked last

vars ==
    <<automatic_relocation, origin, areas, relocation_table, symbols, errors,
      final, address, pc, i, output, log>>

\* The state at line 163: the objects merged, nothing placed.
Init ==
    \E in \in Inputs :
        /\ automatic_relocation = in.automatic_relocation
        /\ origin = in.origin
        /\ areas = in.areas
        /\ relocation_table = get_area_by_name(in.areas, RelocationTableName)
        /\ symbols = <<>>
        /\ errors = <<>>
        /\ final = <<>>
        /\ address = 0
        /\ pc = "place"
        /\ i = 1
        /\ output = <<>>
        /\ log = <<>>

\* The loop that comes after `loop`, entered at its first area.
next_loop(loop) ==
    CASE loop = "place" -> "gather"
      [] loop = "gather" -> "link"
      [] loop = "link" -> "write"
      [] loop = "write" -> "done"

\* Where control goes from an iteration of a loop, or from the call of the
\* writer: one more iteration of the running loop, or the next statement.
Advance ==
    IF pc # "write" /\ i < Len(areas)
    THEN /\ i' = i + 1
         /\ pc' = pc
    ELSE /\ i' = 1
         /\ pc' = next_loop(pc)

\* The areas once area i is placed at address (lines 166-175).
place_area(all, k, at, relocate, table) ==
    LET area == relocate_area(all[k], at)
    IN  IF ~relocate THEN [all EXCEPT ![k] = area]
        ELSE IF k = table
        THEN [all EXCEPT ![k] = append_to_area(area, uint16_bytes(0))]
        ELSE [all EXCEPT ![k] = area,
                         ![table] = auto_relocate_area(area, all[table])]

\* One iteration of the placement loop (lines 165-177).
PlaceArea ==
    /\ pc = "place"
    /\ areas' = place_area(areas, i, address, automatic_relocation,
                           relocation_table)
    /\ address' = address + Len(areas'[i].data)
    /\ Advance
    /\ UNCHANGED <<automatic_relocation, origin, relocation_table, symbols,
                   errors, final, output, log>>

\* One iteration of the gathering loop (lines 178-181).
GatherArea ==
    /\ pc = "gather"
    /\ LET st == gather_symbols(symbols, areas[i], errors)
       IN  /\ symbols' = st.symbols
           /\ errors' = st.errors
    /\ Advance
    /\ UNCHANGED <<automatic_relocation, origin, areas, relocation_table,
                   final, address, output, log>>

\* The end of an iteration of the linking loop: the table as read, the
\* area as resolve_immediate_values left it, its buffer appended to final.
link_done(table, st) ==
    /\ symbols' = table
    /\ areas' = [areas EXCEPT ![i] = [@ EXCEPT
                   !.data = st.data, !.late_immediates = st.immediates]]
    /\ errors' = st.errors
    /\ log' = st.log
    /\ final' = final_after(final, st.data)

\* The iteration on a table that move_origin has been applied to.
link_with(table) ==
    link_done(table, resolve_immediate_values(table, areas[i], errors))

\* One iteration of the linking loop (lines 182-191).
LinkArea ==
    /\ pc = "link"
    /\ link_with(origin_applied(symbols, origin))
    /\ Advance
    /\ UNCHANGED <<automatic_relocation, origin, relocation_table, address,
                   output>>

\* settings->write_output(output, final->data, final->data_length)
WriteOutput ==
    /\ pc = "write"
    /\ output' = Append(output, [data |-> final, length |-> Len(final)])
    /\ Advance
    /\ UNCHANGED <<automatic_relocation, origin, areas, relocation_table,
                   symbols, errors, final, address, log>>

Next == PlaceArea \/ GatherArea \/ LinkArea \/ WriteOutput

Spec == Init /\ [][Next]_vars

\* link_objects is one sequential call: while it has not returned, control
\* moves on to its next statement.
LiveSpec == Spec /\ WF_<<pc, i>>(pc # "done" /\ Advance)

(* ------------------------- notions of the claims ----------------------- *)

\* Every area has its final address.
Placed == pc # "place"

\* Every area's symbols are gathered.
Gathered == pc \in {"link", "write", "done"}

\* At least one area has been linked; LastLinked is the last one, the area
\* whose late immediates log records.
SomeLinked == (pc = "link" /\ i > 1) \/ pc \in {"write", "done"}

LastLinked == IF pc = "link" THEN i - 1 ELSE Len(areas)

\* The natural a uint64_t below 2^31 stands for.
RECURSIVE IntOf(_)
IntOf(v) ==
    IF v = {} THEN 0
    ELSE LET k == CHOOSE k \in v : TRUE IN 2 ^ k + IntOf(v \ {k})

\* v mod 2^w
LowBits(v, w) == IntOf({k \in v : k < w})

\* data with the little-endian bytes of n OR-ed into the count bytes from
\* offset at on, every other byte as it was.
OrLittleEndian(data, at, n, count) ==
    [k \in DOMAIN data |->
       IF k - 1 >= at /\ k - 1 < at + count
       THEN ByteOr(data[k], (n \div (256 ^ (k - 1 - at))) % 256)
       ELSE data[k]]

\* The bytes an immediate of width w occupies.
TargetBytes(w) == (w + 7) \div 8

Truncated(e) ==
    [code |-> "ERROR_VALUE_TRUNCATED", address |-> e.imm.instruction_address,
     symbol |-> <<>>]

\* All the definitions of the merged areas, in area order then stored order.
RECURSIVE DefinitionsFrom(_)
DefinitionsFrom(k) ==
    IF k > Len(areas) THEN <<>>
    ELSE areas[k].symbols \o DefinitionsFrom(k + 1)

Definitions == DefinitionsFrom(1)

SameName(a, b) ==
    Len(a) = Len(b) /\ \A k \in 1..Len(a) : tolower(a[k]) = tolower(b[k])

\* Definition k is the first of its name.
IsFirst(defs, k) == \A j \in 1..(k - 1) : ~SameName(defs[j].name, defs[k].name)

RECURSIVE Select(_, _, _)
Select(defs, first, k) ==
    IF k > Len(defs) THEN <<>>
    ELSE (IF IsFirst(defs, k) = first THEN <<defs[k]>> ELSE <<>>)
         \o Select(defs, first, k + 1)

FirstDefinitions == Select(Definitions, TRUE, 1)
LaterDefinitions == Select(Definitions, FALSE, 1)

\* The table of the same link under origin 0, where line 185 never calls
\* move_origin: the first definitions with the values placement gave them.
Origin0Value(k) == FirstDefinitions[k].value

RECURSIVE Concat(_, _)
Concat(seqs, k) ==
    IF k > Len(seqs) THEN <<>> ELSE seqs[k] \o Concat(seqs, k + 1)

\* The diagnostics of errors with the given code, in order.
RECURSIVE WithCode(_, _, _)
WithCode(errs, code, k) ==
    IF k > Len(errs) THEN <<>>
    ELSE (IF errs[k].code = code THEN <<errs[k]>> ELSE <<>>)
         \o WithCode(errs, code, k + 1)

(* ------------------------------- C1 ------------------------------------ *)

\* C1: once the areas are placed, the first area's final address is 0 and
\* each next area's is the one before plus the bytes that area contributes
\* to the final output (its data as appended to final).
C1_PlacementIsContiguous ==
    Placed =>
      /\ areas[1].final_address = 0
      /\ \A k \in 1..(Len(areas) - 1) :
           areas[k + 1].final_address
             = areas[k].final_address + Len(areas[k].data)

(* ------------------------------- C2 ------------------------------------ *)

\* C2: as read while an area's late immediates are resolved, and once the
\* link has ended, every symbol of the table is exactly origin greater than
\* under origin 0.
C2_OriginAddedOnce ==
    SomeLinked =>
      \A k \in DOMAIN symbols : symbols[k].value = Origin0Value(k) + origin

(* ------------------------------- C3 ------------------------------------ *)

\* C3: a relative immediate of width 8 or 16 whose expression evaluates to
\* the address T, with absolute base address B, gets TruncatedValue exactly
\* when T - B is outside [-2^(w-1), 2^(w-1) - 1], and (T - B) mod 2^w is
\* OR-ed into its bytes in every case.
C3_RelativeSignedRange ==
    SomeLinked =>
      \A j \in DOMAIN log :
        LET e == log[j]
            w == e.imm.width
            d == IntOf(e.value) - e.imm.base_address
        IN  ( /\ e.imm.type = "IMM_TYPE_RELATIVE"
              /\ w \in {8, 16}
              /\ e.error = "EXPRESSION_OK"
              /\ e.value \subseteq 0..30 )
            => /\ e.reported
                    = IF d < -(2 ^ (w - 1)) \/ d > 2 ^ (w - 1) - 1
                      THEN <<Truncated(e)>> ELSE <<>>
               /\ e.after = OrLittleEndian(e.before, e.imm.address,
                                           d % (2 ^ w), TargetBytes(w))

(* ------------------------------- C4 ------------------------------------ *)

\* The entries the relocation table is to hold: one for each absolute
\* immediate whose offset differs from its (area-relative) base address,
\* from area k on.
RECURSIVE EntriesOfArea(_, _)
EntriesOfArea(area, j) ==
    IF j > Len(area.late_immediates) THEN <<>>
    ELSE LET imm == area.late_immediates[j]
         IN  (IF /\ imm.type = "IMM_TYPE_ABSOLUTE"
                 /\ imm.address # imm.base_address - area.final_address
              THEN << (imm.address + area.final_address) % 256,
                      (imm.address + area.final_address) \div 256 >>
              ELSE <<>>)
             \o EntriesOfArea(area, j + 1)

RECURSIVE EntriesFrom(_)
EntriesFrom(k) ==
    IF k > Len(areas) THEN <<>>
    ELSE EntriesOfArea(areas[k], 1) \o EntriesFrom(k + 1)

\* C4: under automatic relocation, when the link has ended the relocation
\* table holds exactly those entries, in area order then stored order, and
\* then the one terminator 0x0000.
C4_RelocationTableContents ==
    (pc = "done" /\ automatic_relocation) =>
      areas[relocation_table].data = EntriesFrom(1) \o <<0, 0>>

(* ------------------------------- C5 ------------------------------------ *)

\* The evaluation of the immediate of log entry e fails: its expression is
\* malformed, or names a symbol that neither the table nor `$` defines.
EvaluationFails(e) ==
    \/ e.imm.expression.kind = "malformed"
    \/ /\ e.imm.expression.kind = "symbol"
       /\ ~SameName(e.imm.expression.name, PC)
       /\ \A k \in DOMAIN symbols :
            ~SameName(e.imm.expression.name, symbols[k].name)

\* The one diagnostic of a failed evaluation.  The inputs' instruction
\* address is the byte before the operand, here made absolute.
FailureDiagnostic(e) ==
    [code |-> IF e.imm.expression.kind = "malformed"
              THEN "ERROR_INVALID_SYNTAX" ELSE "ERROR_UNKNOWN_SYMBOL",
     address |-> e.imm.address - 1 + areas[LastLinked].final_address,
     symbol |-> e.imm.expression.name]

\* C5: every late immediate of the linked area is processed, in stored
\* order, each on the data the one before left; one whose evaluation fails
\* adds exactly its one diagnostic and changes no byte of the area; the
\* area's data and the diagnostics are what the last one left.
C5_FailedEvaluationSkipsPatch ==
    SomeLinked =>
      /\ Len(log) = Len(areas[LastLinked].late_immediates)
      /\ \A j \in DOMAIN log :
           /\ log[j].imm = areas[LastLinked].late_immediates[j]
           /\ j > 1 => log[j].before = log[j - 1].after
           /\ EvaluationFails(log[j]) =>
                /\ log[j].reported = <<FailureDiagnostic(log[j])>>
                /\ log[j].after = log[j].before
      /\ log # <<>> => areas[LastLinked].data = log[Len(log)].after
      /\ LET said == Concat([j \in DOMAIN log |-> log[j].reported], 1)
         IN  /\ Len(said) <= Len(errors)
             /\ SubSeq(errors, Len(errors) - Len(said) + 1, Len(errors))
                  = said

\* A failed evaluation, and after it an immediate that was patched.
C5_Witness ==
    /\ SomeLinked
    /\ \E j, k \in DOMAIN log :
         /\ j < k
         /\ EvaluationFails(log[j])
         /\ log[j].reported # <<>>
         /\ log[k].error = "EXPRESSION_OK"
         /\ log[k].after # log[k].before

(* ------------------------------- C6 ------------------------------------ *)

NameAndPlace(sym) ==
    [name |-> sym.name, defined_address |-> sym.defined_address]

DuplicateOf(sym) ==
    [code |-> "ERROR_DUPLICATE_SYMBOL", address |-> sym.defined_address,
     symbol |-> sym.name]

\* C6: once every area is gathered, no two entries of the table have names
\* equal ignoring case; the table is the first definitions, in area order
\* then stored order; each later definition has exactly one DuplicateSymbol
\* diagnostic; and find_symbol gives, for every spelling defined, the entry
\* of the first definition of that name.
C6_FirstDefinitionWins ==
    Gathered =>
      /\ \A j, k \in DOMAIN symbols :
           j # k => ~SameName(symbols[j].name, symbols[k].name)
      /\ [k \in DOMAIN symbols |-> NameAndPlace(symbols[k])]
           = [k \in DOMAIN FirstDefinitions |->
                NameAndPlace(FirstDefinitions[k])]
      /\ WithCode(errors, "ERROR_DUPLICATE_SYMBOL", 1)
           = [k \in DOMAIN LaterDefinitions |->
                DuplicateOf(LaterDefinitions[k])]
      /\ \A d \in DOMAIN Definitions :
           LET found == find_symbol(symbols, Definitions[d].name)
           IN  /\ found # NULL
               /\ SameName(symbols[found].name, Definitions[d].name)
               /\ \A k \in DOMAIN FirstDefinitions :
                    SameName(FirstDefinitions[k].name, Definitions[d].name)
                    => NameAndPlace(symbols[found])
                         = NameAndPlace(FirstDefinitions[k])

\* `FOO` defined after `Foo`: the table holds `Foo`, a diagnostic names
\* `FOO`, and find_symbol gives the entry `Foo` for `FOO`.
C6_Witness ==
    /\ Gathered
    /\ \E k \in DOMAIN symbols : symbols[k].name = Foo
    /\ \E k \in DOMAIN errors :
         errors[k].code = "ERROR_DUPLICATE_SYMBOL" /\ errors[k].symbol = FOO
    /\ find_symbol(symbols, FOO) # NULL
    /\ symbols[find_symbol(symbols, FOO)].name = Foo

(* ------------------------------- C7 ------------------------------------ *)

AreaData == Concat([k \in DOMAIN areas |-> areas[k].data], 1)

\* C7: every run comes to the end of the Write stage; the writer is called
\* once, at that stage and never before; the loops run in the order place,
\* gather, link, write, each over every area; and the buffer written is the
\* areas' data in placement order, its length the sum of their lengths.
C7_AlwaysWritesOnce ==
    /\ <>(pc = "done")
    /\ [](pc = "done" =>
            /\ Len(output) = 1
            /\ output[1].data = AreaData
            /\ output[1].length = Len(AreaData))
    /\ [](pc # "done" => output = <<>>)
    /\ [][/\ output' # output => (pc = "write" /\ final = AreaData)
          /\ pc' # pc =>
               /\ <<pc, pc'>> \in { <<"place", "gather">>,
                                    <<"gather", "link">>,
                                    <<"link", "write">>,
                                    <<"write", "done">> }
               /\ pc # "write" => i = Len(areas)]_vars

\* A link of several areas that reported diagnostics and wrote its output.
C7_Witness ==
    /\ pc = "done"
    /\ Len(areas) > 1
    /\ errors # <<>>
    /\ Len(output) = 1
    /\ output[1].length > 0

(* ------------------------------- C8 ------------------------------------ *)

\* C8: an absolute immediate of width w whose expression evaluates to v gets
\* TruncatedValue exactly when v and ~v both have a bit at a position >= w,
\* and v mod 2^w is what is OR-ed into its bytes either way.
C8_AbsoluteUnsignedRange ==
    SomeLinked =>
      \A j \in DOMAIN log :
        LET e == log[j]
            w == e.imm.width
        IN  (e.imm.type = "IMM_TYPE_ABSOLUTE" /\ e.error = "EXPRESSION_OK")
            => /\ e.reported
                    = IF /\ \E k \in e.value : k >= w
                         /\ \E k \in Bit \ e.value : k >= w
                      THEN <<Truncated(e)>> ELSE <<>>
               /\ e.after = OrLittleEndian(e.before, e.imm.address,
                                           LowBits(e.value, w),
                                           TargetBytes(w))

(* ------------------------------- C9 ------------------------------------ *)

\* C9: after a successful evaluation of an immediate of width w >= 1 at
\* offset a, the bytes from a on are their contents before OR-ed with the
\* little-endian bytes of the value mod 2^w, and no other byte changes.
C9_PatchIsOrOfMaskedValue ==
    SomeLinked =>
      \A j \in DOMAIN log :
        LET e == log[j]
            w == e.imm.width
        IN  (e.error = "EXPRESSION_OK" /\ w >= 1)
            => e.after = OrLittleEndian(e.before, e.imm.address,
                                        LowBits(e.result, w), TargetBytes(w))

(* ------------------------------- C10 ----------------------------------- *)

\* The first definition that the name resolves to, 0 when there is none.
DefinitionOf(name) ==
    IF \E k \in DOMAIN FirstDefinitions :
         SameName(FirstDefinitions[k].name, name)
    THEN CHOOSE k \in DOMAIN FirstDefinitions :
           SameName(FirstDefinitions[k].name, name)
    ELSE 0

\* C10: a relative immediate whose expression is a label of the linked
\* objects is patched with (the label's placed address - its absolute base
\* address) mod 2^w whatever the origin, and gets TruncatedValue exactly
\* when it gets it under origin 0.
C10_RelativeIgnoresOrigin ==
    SomeLinked =>
      \A j \in DOMAIN log :
        LET e == log[j]
            w == e.imm.width
            k == DefinitionOf(e.imm.expression.name)
            d == Origin0Value(k) - e.imm.base_address
        IN  ( /\ e.imm.type = "IMM_TYPE_RELATIVE"
              /\ e.imm.expression.kind = "symbol"
              /\ k # 0 )
            => /\ e.after = OrLittleEndian(e.before, e.imm.address,
                                           d % (2 ^ w), TargetBytes(w))
               /\ (e.reported = <<Truncated(e)>>)
                    = relative_truncated(
                        Sub64(U64(Origin0Value(k)), U64(e.imm.base_address)),
                        w, width_mask(w))

=============================================================================
